---- MODULE Spec2Model ----
(***************************************************************************)
(* Expression tree of druvisc/solid-abstract-syntax-tree.                  *)
(*                                                                         *)
(* Node constructors (src/modules/arithmetic.js), validation and printing  *)
(* (src/unnamed/part_001), the composition root index.js (head of          *)
(* src/unnamed/part_000) and the test program (src/unnamed/part_002).      *)
(*                                                                         *)
(* JavaScript values are records  [type, cls, n, d, s]:                    *)
(*   type  the result of typeof                                            *)
(*   cls   "finite" | "NaN" | "Infinity" | "-Infinity" | "string" |        *)
(*         "undefined" | "object" | "node"                                 *)
(*   n, d  a finite number n/d in lowest terms (d > 0); for a node the     *)
(*         index n of its closure in the heap; for a foreign object the    *)
(*         number n/d stored in its own property `result`                  *)
(*   s     the characters of a string                                      *)
(* Numbers are exact rationals: rounding, overflow and the sign of zero    *)
(* of IEEE doubles are not modelled, the special values NaN and +-Infinity *)
(* and the results of dividing by zero are.                                *)
(***************************************************************************)
EXTENDS Integers, Sequences, FiniteSets, TLC

(* the largest number of nodes the free client builds *)
MaxNodes == 2

VARIABLES
    prog,   \* which program calls the constructors: "client", "observer", "index", "test"
    pc,     \* next statement of a scripted program
    heap,   \* the closures returned by the constructors, in creation order
    last,   \* the constructor call that has just completed, until the caller goes on
    walk,   \* the result() / toString() call in progress or just completed
    memo    \* an earlier observation of a result() / toString() call kept by the caller

vars == <<prog, pc, heap, last, walk, memo>>

-----------------------------------------------------------------------------
(* JavaScript values *)

Abs(i) == IF i < 0 THEN -i ELSE i

RECURSIVE GCD(_, _)
GCD(a, b) == IF b = 0 THEN a ELSE GCD(b, a % b)

Rat(n, d) ==
    LET g == GCD(Abs(n), Abs(d))
        sgn == IF d < 0 THEN -1 ELSE 1
    IN  [type |-> "number", cls |-> "finite", n |-> sgn * (n \div g), d |-> Abs(d) \div g, s |-> ""]

Num(i) == Rat(i, 1)
NaN == [type |-> "number", cls |-> "NaN", n |-> 0, d |-> 1, s |-> ""]
Infinity == [type |-> "number", cls |-> "Infinity", n |-> 0, d |-> 1, s |-> ""]
NegInfinity == [type |-> "number", cls |-> "-Infinity", n |-> 0, d |-> 1, s |-> ""]
Str(chars) == [type |-> "string", cls |-> "string", n |-> 0, d |-> 1, s |-> chars]
Undefined == [type |-> "undefined", cls |-> "undefined", n |-> 0, d |-> 1, s |-> ""]
(* the object literal {result: i}: it has a property `result` that is no function *)
Obj(i) == [type |-> "object", cls |-> "object", n |-> i, d |-> 1, s |-> ""]
NodeRef(i) == [type |-> "object", cls |-> "node", n |-> i, d |-> 1, s |-> ""]

IsZero(x) == x.cls = "finite" /\ x.n = 0
Sign(x) == CASE x.cls = "Infinity" -> 1
             [] x.cls = "-Infinity" -> -1
             [] x.cls = "finite" /\ x.n < 0 -> -1
             [] OTHER -> 1
Inf(sgn) == IF sgn < 0 THEN NegInfinity ELSE Infinity
Neg(x) == CASE x.cls = "finite" -> Rat(-x.n, x.d)
            [] x.cls = "Infinity" -> NegInfinity
            [] x.cls = "-Infinity" -> Infinity
            [] OTHER -> x

(* the operators +, -, * and / of JavaScript on numbers *)
JSAdd(x, y) ==
    CASE x.cls = "NaN" \/ y.cls = "NaN" -> NaN
      [] x.cls = "finite" /\ y.cls = "finite" -> Rat(x.n * y.d + y.n * x.d, x.d * y.d)
      [] x.cls = "finite" -> y
      [] y.cls = "finite" -> x
      [] x.cls = y.cls -> x
      [] OTHER -> NaN

JSSub(x, y) == JSAdd(x, Neg(y))

JSMul(x, y) ==
    CASE x.cls = "NaN" \/ y.cls = "NaN" -> NaN
      [] x.cls = "finite" /\ y.cls = "finite" -> Rat(x.n * y.n, x.d * y.d)
      [] IsZero(x) \/ IsZero(y) -> NaN
      [] OTHER -> Inf(Sign(x) * Sign(y))

JSDiv(x, y) ==
    CASE x.cls = "NaN" \/ y.cls = "NaN" -> NaN
      [] x.cls # "finite" /\ y.cls # "finite" -> NaN
      [] x.cls # "finite" -> Inf(Sign(x) * Sign(y))
      [] y.cls # "finite" -> Num(0)
      [] IsZero(y) /\ IsZero(x) -> NaN
      [] IsZero(y) -> Inf(Sign(x))
      [] OTHER -> Rat(x.n * y.d, x.d * y.n)

(* the template literal `${value}` *)
TemplateString(value) ==
    CASE value.cls = "finite" /\ value.d = 1 -> ToString(value.n)
      [] value.cls = "finite" -> ToString(value.n) \o "/" \o ToString(value.d)  \* not reached: every printed number is an integer literal
      [] value.cls = "NaN" -> "NaN"
      [] value.cls = "Infinity" -> "Infinity"
      [] value.cls = "-Infinity" -> "-Infinity"
      [] value.cls = "string" -> value.s
      [] value.cls = "undefined" -> "undefined"
      [] OTHER -> "[object Object]"

(* The division sign, the character U+00F7 that makeDivide prints.  The    *)
(* strings of the model are ASCII, so the character is spelled out.        *)
DivisionSign == "U+00F7"

(* the value of the property access x?.result is truthy *)
HasTruthyResult(x) ==
    CASE x.cls = "node" -> TRUE
      [] x.cls = "object" -> x.n # 0
      [] OTHER -> FALSE

(* x.result is a function *)
ResultIsFunction(x) == x.cls = "node"

-----------------------------------------------------------------------------
(* Closures on the heap.  A closure keeps the variables its constructor   *)
(* captured: value for Value, left, right and operation for the others.   *)

Closure(kind, operation, value, left, right) ==
    [kind |-> kind, operation |-> operation, value |-> value, left |-> left, right |-> right]

IsNode(h, x) == x.cls = "node" /\ x.n \in 1..Len(h)

(* a constructor that reuses the object of the first Value for a new Value *)
AllocOverwrite(h, closure) ==
    IF h # <<>> /\ closure.kind = "Value" /\ h[1].kind = "Value"
    THEN Append([h EXCEPT ![1] = closure], closure)
    ELSE Append(h, closure)

(* `return { result: ..., toString: ... }`: a fresh object, nothing else is written *)
Alloc(h, closure) == Append(h, closure)

(* The outcome of a call: it returns val, or it throws an Error of the    *)
(* given kind with the given message.                                     *)
Return(val) == [threw |-> FALSE, error |-> "", message |-> "", val |-> val]
Throw(error, message) == [threw |-> TRUE, error |-> error, message |-> message, val |-> Undefined]

TypeErrorNotAFunction == Throw("TypeError", "result is not a function")

(* isNumber without Number.isFinite *)
isNumberTypeofOnly(value) == value.type = "number"

(* utils: isNumber *)
isNumber(value) == value.type = "number" /\ value.cls = "finite"

(* modules/print *)
printValue(value) == TemplateString(value)

printExpression(leftString, rightString, operation) ==
    "(" \o leftString \o " " \o operation \o " " \o rightString \o ")"

(* x.toString() of a value that is no node: Object.prototype.toString *)
ObjectToString(x) == TemplateString(x)

(* modules/arithmetic: the body of result() of each constructor's closure,  *)
(* given what left.result() and right.result() returned                    *)
AddResult(l, r) == JSAdd(l, r)
SubtractResultSwapped(l, r) == JSSub(r, l)   \* right.result() - left.result()
SubtractResult(l, r) == JSSub(l, r)
MultiplyResult(l, r) == JSMul(l, r)
DivideResult(l, r) == JSDiv(l, r)

ApplyResult(kind, l, r) ==
    CASE kind = "Add" -> AddResult(l, r)
      [] kind = "Subtract" -> SubtractResult(l, r)
      [] kind = "Multiply" -> MultiplyResult(l, r)
      [] kind = "Divide" -> DivideResult(l, r)

(* node.result(), all of the call *)
RECURSIVE result(_, _)
result(h, x) ==
    IF ~ResultIsFunction(x) THEN TypeErrorNotAFunction
    ELSE LET c == h[x.n] IN
         IF c.kind = "Value" THEN Return(c.value)
         ELSE LET l == result(h, c.left) IN
              IF l.threw THEN l
              ELSE LET r == result(h, c.right) IN
                   IF r.threw THEN r
                   ELSE Return(ApplyResult(c.kind, l.val, r.val))

(* node.toString(), all of the call *)
RECURSIVE toString(_, _)
toString(h, x) ==
    IF x.cls # "node" THEN ObjectToString(x)
    ELSE LET c == h[x.n] IN
         IF c.kind = "Value" THEN printValue(c.value)
         ELSE printExpression(toString(h, c.left), toString(h, c.right), c.operation)

(* modules/validation.  calls lists the method calls made on the operands. *)
Checked(outcome, calls) == [outcome |-> outcome, calls |-> calls]

validateValue(value) ==
    IF ~isNumber(value)
    THEN Checked(Throw("InvalidLiteral",
                       "The value \"" \o TemplateString(value) \o "\" is not a numerical value!"), <<>>)
    ELSE Checked(Return(Undefined), <<>>)

validateExpression(left, right, operation) ==
    IF ~HasTruthyResult(left) \/ ~HasTruthyResult(right)
    THEN Checked(Throw("MissingOperand",
                       "The operation \"" \o operation \o "\" is missing an operand!"), <<>>)
    ELSE Checked(Return(Undefined), <<>>)

(* validateDivide without the zero test *)
validateDivideNoZeroTest(h, left, right, operation) ==
    validateExpression(left, right, operation)

(* validateDivide with the zero test on the wrong operand *)
validateDivideLeft(h, left, right, operation) ==
    LET v == validateExpression(left, right, operation) IN
    IF v.outcome.threw THEN v
    ELSE LET r == result(h, left) IN
         IF r.threw THEN Checked(r, <<"left.result">>)
         ELSE IF IsZero(r.val)
              THEN Checked(Throw("ZeroDivisor",
                                 "The right-hand side operand \"" \o toString(h, left)
                                     \o "\" for Divide must be non-zero!"),
                           <<"left.result", "left.toString">>)
              ELSE Checked(Return(Undefined), <<"left.result">>)

validateDivide(h, left, right, operation) ==
    LET v == validateExpression(left, right, operation) IN
    IF v.outcome.threw THEN v
    ELSE LET r == result(h, right) IN
         IF r.threw THEN Checked(r, <<"right.result">>)
         ELSE IF IsZero(r.val)
              THEN Checked(Throw("ZeroDivisor",
                                 "The right-hand side operand \"" \o toString(h, right)
                                     \o "\" for Divide must be non-zero!"),
                           <<"right.result", "right.toString">>)
              ELSE Checked(Return(Undefined), <<"right.result">>)

-----------------------------------------------------------------------------
(* The programs that call the constructors.                                *)

Stmt(op, a, b) == [op |-> op, a |-> a, b |-> b]
V(value) == Stmt("Value", value, Undefined)
Bin(op, i, j) == Stmt(op, NodeRef(i), NodeRef(j))
Res(i) == Stmt("result", NodeRef(i), Undefined)
ToS(i) == Stmt("toString", NodeRef(i), Undefined)

(* index.js: the arguments of a call are evaluated left to right, so the   *)
(* closures are created in the order #1 .. #9                              *)
IndexProgram == <<
    V(Num(7)),                  \* #1
    V(Num(3)),                  \* #2
    V(Num(2)),                  \* #3
    Bin("Subtract", 2, 3),      \* #4
    V(Num(5)),                  \* #5
    Bin("Multiply", 4, 5),      \* #6
    Bin("Add", 1, 6),           \* #7
    V(Num(6)),                  \* #8
    Bin("Divide", 7, 8),        \* #9  tree
    ToS(9),
    Res(9) >>

(* the test program *)
TestProgram == <<
    V(Num(1)), Res(1), ToS(1),                                   \* #1 value
    V(Str("abc")), V(NaN), V(Infinity),
    V(Num(1)), V(Num(2)), Bin("Add", 2, 3), Res(4), ToS(4),      \* #4 add
    V(Num(2)), Stmt("Add", Str("abc"), NodeRef(5)),
    V(Num(1)), Stmt("Add", NodeRef(6), Str("abc")),
    V(Num(1)), V(Num(2)), Bin("Subtract", 7, 8), Res(9), ToS(9), \* #9 subtract
    V(Num(2)), Stmt("Subtract", Str("abc"), NodeRef(10)),
    V(Num(1)), Stmt("Subtract", NodeRef(11), Str("abc")),
    V(Num(1)), V(Num(2)), Bin("Multiply", 12, 13), Res(14), ToS(14),   \* #14 multiply
    V(Num(2)), Stmt("Multiply", Str("abc"), NodeRef(15)),
    V(Num(1)), Stmt("Multiply", NodeRef(16), Str("abc")),
    V(Num(1)), V(Num(2)), Bin("Divide", 17, 18), Res(19), ToS(19),     \* #19 divide
    V(Num(2)), Stmt("Divide", Str("abc"), NodeRef(20)),
    V(Num(1)), Stmt("Divide", NodeRef(21), Str("abc")),
    V(Num(1)), V(Num(0)), Bin("Divide", 22, 23),
    V(Num(1)), V(Num(7)), V(Num(8)), Bin("Subtract", 25, 26), V(Num(1)),
    Bin("Add", 27, 28), Bin("Divide", 24, 29) >>

Programs == {"client", "observer", "index", "test"}
Script(p) == CASE p = "index" -> IndexProgram
               [] p = "test" -> TestProgram
               [] OTHER -> <<>>

(* What a caller that follows no script passes to the constructors.  The   *)
(* client passes values of every kind, a negative number among them; the   *)
(* observer passes numbers, nodes and the string of the tests, and         *)
(* compares what the calls on a node return.                               *)
ClientLiterals ==
    IF prog = "client" THEN {Num(0), Num(-1), Str("abc"), NaN, Infinity, NegInfinity, Undefined}
    ELSE {Num(0), Num(1), Str("abc")}
ClientOperands(h) ==
    {NodeRef(i) : i \in 1..Len(h)}
        \cup (IF prog = "client" THEN {Str("abc"), Undefined, Obj(1)} ELSE {Str("abc")})

Scripted == prog \in {"index", "test"}
AtStmt == Scripted /\ pc <= Len(Script(prog))
LiteralArgs == IF Scripted THEN (IF AtStmt THEN {Script(prog)[pc].a} ELSE {}) ELSE ClientLiterals
LeftArgs == IF Scripted THEN (IF AtStmt THEN {Script(prog)[pc].a} ELSE {}) ELSE ClientOperands(heap)
RightArgs == IF Scripted THEN (IF AtStmt THEN {Script(prog)[pc].b} ELSE {}) ELSE ClientOperands(heap)
May(op, a, b) == Scripted => AtStmt /\ Script(prog)[pc] = Stmt(op, a, b)
Advance == pc' = IF Scripted THEN pc + 1 ELSE pc

-----------------------------------------------------------------------------
(* State *)

NoCall == [status |-> "none", op |-> "", a |-> Undefined, b |-> Undefined,
           error |-> "", message |-> "", calls |-> <<>>, ret |-> Undefined]
Idle == [status |-> "idle", mode |-> "", root |-> 0, stack |-> <<>>, calls |-> <<>>,
         out |-> Return(Undefined)]
NoMemo == [mode |-> "", root |-> 0, out |-> Return(Undefined), at |-> 0]

Init ==
    /\ prog \in Programs
    /\ pc = 1
    /\ heap = <<>>
    /\ last = NoCall
    /\ walk = Idle
    /\ memo = NoMemo

Ready == last.status = "none" /\ walk.status = "idle"

-----------------------------------------------------------------------------
(* The constructors.  A constructor validates, and only then returns the   *)
(* closure; a throw leaves nothing behind.                                  *)

Construct(op, a, b, checked, closure) ==
    /\ Ready
    /\ May(op, a, b)
    /\ (~Scripted /\ ~checked.outcome.threw) => Len(heap) < MaxNodes
    /\ heap' = IF checked.outcome.threw THEN heap ELSE Alloc(heap, closure)
    /\ last' = [status |-> IF checked.outcome.threw THEN "threw" ELSE "returned",
                op |-> op, a |-> a, b |-> b,
                error |-> checked.outcome.error, message |-> checked.outcome.message,
                calls |-> checked.calls,
                ret |-> IF checked.outcome.threw THEN Undefined ELSE NodeRef(Len(heap) + 1)]
    /\ Advance
    /\ UNCHANGED <<prog, walk, memo>>

makeValue(value) ==
    Construct("Value", value, Undefined, validateValue(value),
              Closure("Value", "", value, Undefined, Undefined))

makeAdd(left, right) ==
    Construct("Add", left, right, validateExpression(left, right, "+"),
              Closure("Add", "+", Undefined, left, right))

makeSubtract(left, right) ==
    Construct("Subtract", left, right, validateExpression(left, right, "-"),
              Closure("Subtract", "-", Undefined, left, right))

(* Multiply printing an asterisk *)
makeMultiplyAsterisk(left, right) ==
    Construct("Multiply", left, right, validateExpression(left, right, "*"),
              Closure("Multiply", "*", Undefined, left, right))

makeMultiply(left, right) ==
    Construct("Multiply", left, right, validateExpression(left, right, "x"),
              Closure("Multiply", "x", Undefined, left, right))

makeDivide(left, right) ==
    Construct("Divide", left, right, validateDivide(heap, left, right, DivisionSign),
              Closure("Divide", DivisionSign, Undefined, left, right))

(* the caller takes the returned node, or catches the Error, and goes on *)
Continue ==
    /\ last.status # "none"
    /\ last' = NoCall
    /\ UNCHANGED <<prog, pc, heap, walk, memo>>

-----------------------------------------------------------------------------
(* node.result() and node.toString(), call by call.  A frame is one call   *)
(* of a closure's method: self is the object the method was called on, pc  *)
(* where the body stands, lv and rv what the calls on left and right       *)
(* returned.  walk.calls lists the objects called, in call order.          *)

Frame(x) == [self |-> x, pc |-> "enter", lv |-> Undefined, rv |-> Undefined]

Top == walk.stack[Len(walk.stack)]
TopClosure == heap[Top.self.n]
Running == walk.status = "running"
AtNode == Running /\ Top.self.cls = "node"

(* the caller calls x.result() or x.toString() on a node it holds *)
Call(mode, x) ==
    /\ Ready
    /\ IsNode(heap, x)
    /\ May(mode, x, Undefined)
    /\ walk' = [status |-> "running", mode |-> mode, root |-> x.n, stack |-> <<Frame(x)>>,
                calls |-> <<x>>, out |-> Return(Undefined)]
    /\ Advance
    /\ UNCHANGED <<prog, heap, last, memo>>

(* the call on top of the stack returns val to its caller *)
Returned(w, val) ==
    LET rest == SubSeq(w.stack, 1, Len(w.stack) - 1) IN
    IF rest = <<>>
    THEN [w EXCEPT !.status = "returned", !.stack = <<>>, !.out = Return(val)]
    ELSE LET caller == rest[Len(rest)]
             resumed == IF caller.pc = "left"
                        THEN [caller EXCEPT !.pc = "gotleft", !.lv = val]
                        ELSE [caller EXCEPT !.pc = "gotright", !.rv = val]
         IN  [w EXCEPT !.stack = [rest EXCEPT ![Len(rest)] = resumed]]

(* the call on top of the stack calls the same method on child *)
Entered(w, child, waiting) ==
    [w EXCEPT !.stack = Append([w.stack EXCEPT ![Len(w.stack)].pc = waiting], Frame(child)),
              !.calls = Append(w.calls, child)]

(* Value: result: () => value,  toString: () => toString(value) *)
ReturnValue ==
    /\ AtNode
    /\ TopClosure.kind = "Value"
    /\ walk' = Returned(walk, IF walk.mode = "result" THEN TopClosure.value
                              ELSE Str(printValue(TopClosure.value)))
    /\ UNCHANGED <<prog, pc, heap, last, memo>>

(* a body that evaluates its right operand first *)
EnterRightFirst ==
    /\ AtNode
    /\ TopClosure.kind # "Value"
    /\ Top.pc = "enter"
    /\ walk' = Entered(walk, TopClosure.right, "left")
    /\ UNCHANGED <<prog, pc, heap, last, memo>>

(* the left operand of  left.result() <op> right.result()  and of the      *)
(* template of printExpression is evaluated first                          *)
EnterLeft ==
    /\ AtNode
    /\ TopClosure.kind # "Value"
    /\ Top.pc = "enter"
    /\ walk' = Entered(walk, TopClosure.left, "left")
    /\ UNCHANGED <<prog, pc, heap, last, memo>>

EnterRight ==
    /\ AtNode
    /\ TopClosure.kind # "Value"
    /\ Top.pc = "gotleft"
    /\ walk' = Entered(walk, TopClosure.right, "right")
    /\ UNCHANGED <<prog, pc, heap, last, memo>>

ReturnBinary ==
    /\ AtNode
    /\ TopClosure.kind # "Value"
    /\ Top.pc = "gotright"
    /\ walk' = Returned(walk, IF walk.mode = "result"
                              THEN ApplyResult(TopClosure.kind, Top.lv, Top.rv)
                              ELSE Str(printExpression(Top.lv.s, Top.rv.s, TopClosure.operation)))
    /\ UNCHANGED <<prog, pc, heap, last, memo>>

(* the operand is no closure of a constructor: calling its property result *)
(* throws a TypeError that no frame catches; its toString is               *)
(* Object.prototype.toString                                               *)
ForeignCall ==
    /\ Running
    /\ Top.self.cls # "node"
    /\ walk' = IF walk.mode = "result"
               THEN [walk EXCEPT !.status = "threw", !.stack = <<>>, !.out = TypeErrorNotAFunction]
               ELSE Returned(walk, Str(ObjectToString(Top.self)))
    /\ UNCHANGED <<prog, pc, heap, last, memo>>

Completed == walk.status \in {"returned", "threw"}
(* at: how many nodes there were when the caller kept the observation *)
Observation == [mode |-> walk.mode, root |-> walk.root, out |-> walk.out, at |-> Len(heap)]

(* the caller drops what the call returned *)
Discard ==
    /\ Completed
    /\ walk' = Idle
    /\ UNCHANGED <<prog, pc, heap, last, memo>>

(* the caller keeps what the call returned *)
Remember ==
    /\ Completed
    /\ prog = "observer"
    /\ memo' = Observation
    /\ walk' = Idle
    /\ UNCHANGED <<prog, pc, heap, last>>

Next ==
    \/ \E value \in LiteralArgs : makeValue(value)
    \/ \E left \in LeftArgs, right \in RightArgs : makeAdd(left, right)
    \/ \E left \in LeftArgs, right \in RightArgs : makeSubtract(left, right)
    \/ \E left \in LeftArgs, right \in RightArgs : makeMultiply(left, right)
    \/ \E left \in LeftArgs, right \in RightArgs : makeDivide(left, right)
    \/ Continue
    \/ \E mode \in {"result", "toString"}, x \in LeftArgs : Call(mode, x)
    \/ ReturnValue
    \/ EnterLeft
    \/ EnterRight
    \/ ReturnBinary
    \/ ForeignCall
    \/ Discard
    \/ Remember

Spec == Init /\ [][Next]_vars

-----------------------------------------------------------------------------
(* What the properties below speak of.                                     *)

BinaryKinds == {"Add", "Subtract", "Multiply", "Divide"}

(* x is a node and so is everything below it *)
RECURSIVE ValidTree(_, _)
ValidTree(h, x) ==
    /\ IsNode(h, x)
    /\ h[x.n].kind # "Value" => ValidTree(h, h[x.n].left) /\ ValidTree(h, h[x.n].right)

(* the operator symbol each constructor is to print *)
Symbol(kind) ==
    CASE kind = "Add" -> "+"
      [] kind = "Subtract" -> "-"
      [] kind = "Multiply" -> "x"
      [] kind = "Divide" -> DivisionSign

(* the reference evaluation: the number a valid tree stands for *)
RECURSIVE RefEval(_, _)
RefEval(h, x) ==
    LET c == h[x.n] IN
    CASE c.kind = "Value" -> c.value
      [] c.kind = "Add" -> JSAdd(RefEval(h, c.left), RefEval(h, c.right))
      [] c.kind = "Subtract" -> JSSub(RefEval(h, c.left), RefEval(h, c.right))
      [] c.kind = "Multiply" -> JSMul(RefEval(h, c.left), RefEval(h, c.right))
      [] c.kind = "Divide" -> JSDiv(RefEval(h, c.left), RefEval(h, c.right))

(* the reference rendering: fully parenthesized infix *)
RECURSIVE RefRender(_, _)
RefRender(h, x) ==
    LET c == h[x.n] IN
    IF c.kind = "Value" THEN ToString(c.value.n)
    ELSE "(" \o RefRender(h, c.left) \o " " \o Symbol(c.kind) \o " "
             \o RefRender(h, c.right) \o ")"

(* the nodes of a valid tree, parent first, then the left subtree, then the right one *)
RECURSIVE Preorder(_, _)
Preorder(h, x) ==
    IF h[x.n].kind = "Value" THEN <<x>>
    ELSE <<x>> \o Preorder(h, h[x.n].left) \o Preorder(h, h[x.n].right)

(* the literals of a valid tree, left to right *)
RECURSIVE Literals(_, _)
Literals(h, x) ==
    IF h[x.n].kind = "Value" THEN <<x>>
    ELSE Literals(h, h[x.n].left) \o Literals(h, h[x.n].right)

IsPrefix(p, q) == Len(p) <= Len(q) /\ SubSeq(q, 1, Len(p)) = p

RECURSIVE OnlyValues(_, _)
OnlyValues(h, calls) ==
    IF calls = <<>> THEN <<>>
    ELSE (IF h[Head(calls).n].kind = "Value" THEN <<Head(calls)>> ELSE <<>>)
             \o OnlyValues(h, Tail(calls))

(* how often the character ch occurs in the string str *)
RECURSIVE CountFrom(_, _, _)
CountFrom(str, ch, i) ==
    IF i > Len(str) THEN 0
    ELSE (IF SubSeq(str, i, i) = ch THEN 1 ELSE 0) + CountFrom(str, ch, i + 1)
CountChar(str, ch) == CountFrom(str, ch, 1)

(* how many binary nodes a walk of a valid tree meets *)
RECURSIVE BinaryCount(_, _)
BinaryCount(h, x) ==
    IF h[x.n].kind = "Value" THEN 0
    ELSE 1 + BinaryCount(h, h[x.n].left) + BinaryCount(h, h[x.n].right)

ConstructorCalled == last.status # "none"
WalkOf(mode) == walk.status # "idle" /\ walk.mode = mode
WalkReturned(mode) == walk.status = "returned" /\ walk.mode = mode

-----------------------------------------------------------------------------
(* C1: no constructor ever returns an invalid tree: both children of every *)
(* binary node on the heap are nodes, whatever values were passed, and no  *)
(* result() or toString() call on a node throws.                           *)
C1_InvalidTreeNeverBuilt ==
    /\ \A i \in 1..Len(heap) :
           heap[i].kind \in BinaryKinds =>
               IsNode(heap, heap[i].left) /\ IsNode(heap, heap[i].right)
    /\ walk.status # "threw"

(* C2: Add, Subtract, Multiply and Divide throw MissingOperand, with the   *)
(* operator symbol in the message, whenever left or right is no valid      *)
(* node, and Add, Subtract and Multiply return a node when both are.       *)
C2_MissingOperand ==
    (ConstructorCalled /\ last.op \in BinaryKinds) =>
        /\ (~ValidTree(heap, last.a) \/ ~ValidTree(heap, last.b)) =>
               /\ last.status = "threw"
               /\ last.error = "MissingOperand"
               /\ last.message = "The operation \"" \o Symbol(last.op) \o "\" is missing an operand!"
        /\ (ValidTree(heap, last.a) /\ ValidTree(heap, last.b) /\ last.op # "Divide") =>
               /\ last.status = "returned"
               /\ heap[last.ret.n].kind = last.op

(* C3: Divide on two valid nodes throws ZeroDivisor exactly when right     *)
(* evaluates to 0, whatever left evaluates to; the message carries the     *)
(* rendering of right and the word Divide; otherwise Divide returns a node. *)
C3_ZeroDivisor ==
    (ConstructorCalled /\ last.op = "Divide"
        /\ ValidTree(heap, last.a) /\ ValidTree(heap, last.b)) =>
        /\ (last.status = "threw") <=> IsZero(RefEval(heap, last.b))
        /\ last.status = "threw" =>
               /\ last.error = "ZeroDivisor"
               /\ last.message = "The right-hand side operand \"" \o RefRender(heap, last.b)
                                     \o "\" for Divide must be non-zero!"
        /\ last.status = "returned" =>
               heap[last.ret.n] = Closure("Divide", DivisionSign, Undefined, last.a, last.b)
        /\ (prog = "test" /\ last.a = NodeRef(22)) =>
               last.message = "The right-hand side operand \"0\" for Divide must be non-zero!"
        /\ (prog = "test" /\ last.a = NodeRef(24)) =>
               last.message = "The right-hand side operand \"((7 - 8) + 1)\" for Divide must be non-zero!"

(* a Divide whose right operand is a compound expression of value 0 was refused *)
C3_Witness ==
    /\ ConstructorCalled /\ last.op = "Divide" /\ last.error = "ZeroDivisor"
    /\ ValidTree(heap, last.a) /\ ValidTree(heap, last.b)
    /\ heap[last.b.n].kind \in BinaryKinds
    /\ ~IsZero(RefEval(heap, last.a))

(* C4: Value throws InvalidLiteral exactly when its argument is no finite  *)
(* number, the message names the argument, and a finite number (0 and      *)
(* negative numbers too) gives a node that holds it.                       *)
C4_InvalidLiteral ==
    (ConstructorCalled /\ last.op = "Value") =>
        /\ (last.status = "threw") <=> ~(last.a.type = "number" /\ last.a.cls = "finite")
        /\ last.status = "threw" => last.error = "InvalidLiteral"
        /\ last.status = "returned" =>
               heap[last.ret.n] = Closure("Value", "", last.a, Undefined, Undefined)
        /\ last.a = Str("abc") => last.message = "The value \"abc\" is not a numerical value!"
        /\ last.a = NaN => last.message = "The value \"NaN\" is not a numerical value!"
        /\ last.a = Infinity => last.message = "The value \"Infinity\" is not a numerical value!"
        /\ last.a = NegInfinity => last.message = "The value \"-Infinity\" is not a numerical value!"
        /\ last.a = Undefined => last.message = "The value \"undefined\" is not a numerical value!"

(* Value(-Infinity), a number that is not finite, was refused *)
C4_Witness ==
    /\ ConstructorCalled /\ last.op = "Value" /\ last.a = NegInfinity
    /\ last.status = "threw"

(* C8: Divide with an operand that is no valid node throws MissingOperand, *)
(* never ZeroDivisor, and calls neither result nor toString on an operand. *)
C8_OperandsBeforeDivisor ==
    (ConstructorCalled /\ last.op = "Divide"
        /\ (~ValidTree(heap, last.a) \/ ~ValidTree(heap, last.b))) =>
        /\ last.status = "threw"
        /\ last.error = "MissingOperand"
        /\ last.calls = <<>>

-----------------------------------------------------------------------------
(* C5: result() of a valid tree is the reference evaluation: a Value gives *)
(* its number, Add l + r, Subtract l - r, Multiply l * r, Divide l / r, on *)
(* what the children give; the tree of index.js gives 2 and the Divide of  *)
(* the tests 0.5.                                                          *)
C5_EvaluateIsReference ==
    /\ \A i \in 1..Len(heap) :
           ValidTree(heap, NodeRef(i)) =>
               result(heap, NodeRef(i)) = Return(RefEval(heap, NodeRef(i)))
    /\ (WalkOf("result") /\ ValidTree(heap, NodeRef(walk.root))) =>
           /\ walk.status # "threw"
           /\ walk.status = "returned" => walk.out = Return(RefEval(heap, NodeRef(walk.root)))
           /\ (walk.status = "returned" /\ prog = "index") => walk.out.val = Num(2)
           /\ (walk.status = "returned" /\ prog = "test" /\ walk.root = 19) =>
                  walk.out.val = Rat(1, 2)
           /\ (walk.status = "returned" /\ prog = "test" /\ walk.root = 9) =>
                  walk.out.val = Num(-1)

(* index.js has evaluated its tree of nine nodes to 2 *)
C5_Witness ==
    /\ prog = "index" /\ WalkReturned("result") /\ walk.root = 9
    /\ heap[9].kind = "Divide"
    /\ walk.out.val = Num(2)

C7_DivisorNeverZero ==
    /\ \A i \in 1..Len(heap) :
           heap[i].kind = "Divide" =>
               LET r == result(heap, heap[i].right) IN
               ~r.threw /\ r.val.type = "number" /\ ~IsZero(r.val)
    /\ WalkOf("result") =>
           \A k \in 1..Len(walk.stack) :
               LET f == walk.stack[k] IN
               (f.self.cls = "node" /\ heap[f.self.n].kind = "Divide" /\ f.pc = "gotright") =>
                   /\ f.rv.type = "number" /\ ~IsZero(f.rv)
                   /\ f.rv = result(heap, heap[f.self.n].right).val

(* a result() call on a Divide node has got the value of the right child *)
C7_Witness ==
    /\ WalkOf("result") /\ walk.status = "running"
    /\ Top.self.cls = "node" /\ TopClosure.kind = "Divide" /\ Top.pc = "gotright"
    /\ ~IsZero(Top.rv)

-----------------------------------------------------------------------------
(* C9: in a result() call on a valid tree every binary node calls result() *)
(* on its left child, lets it return, and only then calls result() on its  *)
(* right child; each child is called once per call of its parent, so the   *)
(* calls are made in the order parent, left subtree, right subtree and the *)
(* literals are met from left to right.                                    *)
C9_LeftBeforeRight ==
    (WalkOf("result") /\ ValidTree(heap, NodeRef(walk.root))) =>
        /\ IsPrefix(walk.calls, Preorder(heap, NodeRef(walk.root)))
        /\ IsPrefix(OnlyValues(heap, walk.calls), Literals(heap, NodeRef(walk.root)))
        /\ walk.status = "returned" =>
               /\ walk.calls = Preorder(heap, NodeRef(walk.root))
               /\ OnlyValues(heap, walk.calls) = Literals(heap, NodeRef(walk.root))
        /\ \A k \in 1..Len(walk.stack) :
               LET f == walk.stack[k]
                   c == heap[f.self.n]
               IN  /\ k < Len(walk.stack) =>
                          /\ c.kind \in BinaryKinds
                          /\ f.pc \in {"left", "right"}
                          /\ walk.stack[k + 1].self = (IF f.pc = "left" THEN c.left ELSE c.right)
                   /\ f.pc \in {"gotleft", "right", "gotright"} =>
                          f.lv = Return(RefEval(heap, c.left)).val
                   /\ f.pc = "gotright" => f.rv = Return(RefEval(heap, c.right)).val
                   /\ f.pc \in {"enter", "left"} => f.lv = Undefined /\ f.rv = Undefined
                   /\ f.pc \in {"gotleft", "right"} => f.rv = Undefined

(* the right child, another node than the left one, is being called after  *)
(* the left child has returned                                             *)
C9_Witness ==
    /\ WalkOf("result") /\ walk.status = "running" /\ Len(walk.stack) >= 2
    /\ ValidTree(heap, NodeRef(walk.root))
    /\ LET f == walk.stack[Len(walk.stack) - 1] IN
           /\ f.pc = "right"
           /\ f.lv # Undefined
           /\ heap[f.self.n].left # heap[f.self.n].right
           /\ heap[heap[f.self.n].left.n].kind \in BinaryKinds

(* C10: nodes never change and result() and toString() are pure: no step   *)
(* (a constructor call that returns or throws, a step of a result() or     *)
(* toString() call) changes a closure that exists, and a call on a node    *)
(* gives what an earlier call of the same method on that node gave.        *)
Repeatable ==
    (Completed /\ memo.mode = walk.mode /\ memo.root = walk.root) => walk.out = memo.out

====
